---- MODULE Spec2Model ----
(***************************************************************************)
(* Verification model of the gitkit token verifier (VerifyToken,           *)
(* decodeSegment, inArray, Token.Expired) and of the certificate cache     *)
(* (Certificates.Cert, Certificates.update) it reads.                      *)
(*                                                                         *)
(* Strings and byte slices are sequences of byte values (ASCII codes), so  *)
(* strings.Split, the base64url codec and the signed text                  *)
(* parts[0]+"."+parts[1] are computed on the characters of the token.      *)
(***************************************************************************)
EXTENDS Integers, Sequences, FiniteSets, TLC

\* ------------------------------------------------------------------------
\* Bounds of the model
\* ------------------------------------------------------------------------
\* The clock runs from 0 to MaxNow ticks.
MaxNow == 3
\* The clock has sub-second resolution: ticks per second of Unix time.
TicksPerSecond == 2

\* ------------------------------------------------------------------------
\* Characters
\* ------------------------------------------------------------------------
Dot == 46
PadChar == 61

\* "" and the one-letter names used for issuers, audiences and key ids
EmptyStr == <<>>
StrA == <<97>>
StrB == <<98>>
StrI == <<105>>
StrJ == <<106>>
StrK == <<107>>
StrM == <<109>>
RS256 == <<82, 83, 50, 53, 54>>
HS256 == <<72, 83, 50, 53, 54>>

\* ------------------------------------------------------------------------
\* encoding/base64, URL alphabet
\* ------------------------------------------------------------------------
\* The 6-bit value of a character of the URL-safe alphabet, -1 for any other
\* character.
B64Value(c) ==
  IF c >= 65 /\ c <= 90 THEN c - 65
  ELSE IF c >= 97 /\ c <= 122 THEN c - 97 + 26
  ELSE IF c >= 48 /\ c <= 57 THEN c - 48 + 52
  ELSE IF c = 45 THEN 62
  ELSE IF c = 95 THEN 63
  ELSE -1

\* The character of a 6-bit value.
B64Char(v) ==
  IF v < 26 THEN 65 + v
  ELSE IF v < 52 THEN 97 + (v - 26)
  ELSE IF v < 62 THEN 48 + (v - 52)
  ELSE IF v = 62 THEN 45
  ELSE 95

CorruptInputError == "illegal base64 data"

\* base64.URLEncoding.DecodeString: the input is read in groups of four
\* characters; '=' may only close the last group, as "x=" or "==", and every
\* other character must be of the alphabet.  Byte n of the output is the
\* eight bits at bit 8*(n-1) of the 6-bit values.
URLDecodeString(s) ==
  LET pads == IF Len(s) >= 2 /\ s[Len(s)] = PadChar /\ s[Len(s) - 1] = PadChar THEN 2
              ELSE IF Len(s) >= 1 /\ s[Len(s)] = PadChar THEN 1
              ELSE 0
      chars == Len(s) - pads
      v == [n \in 1..(chars + 1) |-> IF n <= chars THEN B64Value(s[n]) ELSE 0]
      byte(n) == LET k == ((8 * (n - 1)) \div 6) + 1
                     off == (8 * (n - 1)) % 6
                 IN ((v[k] * 64 + v[k + 1]) \div 2^(4 - off)) % 256
  IN IF Len(s) % 4 # 0 \/ (\E n \in 1..chars : v[n] < 0)
       THEN [bytes |-> <<>>, err |-> CorruptInputError]
       ELSE [bytes |-> [n \in 1..((chars * 6) \div 8) |-> byte(n)], err |-> "nil"]

\* base64.RawURLEncoding.EncodeToString: unpadded base64url.  Character n of
\* the output is the six bits at bit 6*(n-1) of the bytes.
RawURLEncodeToString(b) ==
  LET bb == [n \in 1..(Len(b) + 1) |-> IF n <= Len(b) THEN b[n] ELSE 0]
      char(n) == LET k == ((6 * (n - 1)) \div 8) + 1
                     off == (6 * (n - 1)) % 8
                 IN B64Char(((bb[k] * 256 + bb[k + 1]) \div 2^(10 - off)) % 64)
  IN [n \in 1..((Len(b) * 8 + 5) \div 6) |-> char(n)]

\* base64.URLEncoding.EncodeToString: the unpadded text, filled with '=' to a
\* multiple of four characters.
URLEncodeToString(b) ==
  LET raw == RawURLEncodeToString(b)
  IN raw \o [n \in 1..((4 - (Len(raw) % 4)) % 4) |-> PadChar]

\* the case of two missing characters left out
decodeSegment_onePadOnly(s) ==
  LET padded == IF Len(s) % 4 = 3 THEN s \o <<PadChar>> ELSE s
  IN URLDecodeString(padded)

\* decodeSegment pads the segment to a multiple of four when its length
\* leaves a remainder of 2 or 3 and decodes it.
decodeSegment(s) ==
  LET padded == IF Len(s) % 4 = 2 THEN s \o <<PadChar, PadChar>>
                ELSE IF Len(s) % 4 = 3 THEN s \o <<PadChar>>
                ELSE s
  IN URLDecodeString(padded)

\* ------------------------------------------------------------------------
\* encoding/json, restricted to the objects the tokens of the model carry
\* ------------------------------------------------------------------------
\* The member names of the `json:"..."` tags of the claims and header structs.
KeyIss == <<105, 115, 115>>
KeyAud == <<97, 117, 100>>
KeyIat == <<105, 97, 116>>
KeyExp == <<101, 120, 112>>
KeyUserID == <<117, 115, 101, 114, 95, 105, 100>>
KeyEmail == <<101, 109, 97, 105, 108>>
KeyVerified == <<118, 101, 114, 105, 102, 105, 101, 100>>
KeyProviderID == <<112, 114, 111, 118, 105, 100, 101, 114, 95, 105, 100>>
KeyDisplayName == <<100, 105, 115, 112, 108, 97, 121, 95, 110, 97, 109, 101>>
KeyPhotoURL == <<112, 104, 111, 116, 111, 95, 117, 114, 108>>
KeyAlg == <<97, 108, 103>>
KeyKid == <<107, 105, 100>>
JSONTrue == <<116, 114, 117, 101>>

\* A JSON object is a record of the values of its members; a member with the
\* zero value is absent from the text.
ZeroDoc ==
  [Iss |-> EmptyStr, Aud |-> EmptyStr, Iat |-> 0, Exp |-> 0,
   UserID |-> EmptyStr, Email |-> EmptyStr, Verified |-> FALSE,
   ProviderID |-> EmptyStr, DisplayName |-> EmptyStr, PhotoURL |-> EmptyStr,
   Algorithm |-> EmptyStr, KeyID |-> EmptyStr]

Quote(str) == <<34>> \o str \o <<34>>
StringMember(key, str) ==
  IF str = EmptyStr THEN <<>> ELSE <<Quote(key) \o <<58>> \o Quote(str)>>
\* numbers of the model are single digits
NumberMember(key, n) ==
  IF n = 0 THEN <<>> ELSE <<Quote(key) \o <<58>> \o <<48 + n>>>>
BoolMember(key, b) ==
  IF b THEN <<Quote(key) \o <<58>> \o JSONTrue>> ELSE <<>>

RECURSIVE JoinWith(_, _)
\* strings.Join
JoinWith(parts, sep) ==
  IF Len(parts) = 0 THEN <<>>
  ELSE IF Len(parts) = 1 THEN parts[1]
  ELSE parts[1] \o sep \o JoinWith(Tail(parts), sep)

\* The text of a JSON object.
JSONText(d) ==
  <<123>> \o
  JoinWith(StringMember(KeyAlg, d.Algorithm) \o StringMember(KeyKid, d.KeyID) \o
           StringMember(KeyIss, d.Iss) \o StringMember(KeyAud, d.Aud) \o
           NumberMember(KeyIat, d.Iat) \o NumberMember(KeyExp, d.Exp) \o
           StringMember(KeyUserID, d.UserID) \o StringMember(KeyEmail, d.Email) \o
           BoolMember(KeyVerified, d.Verified) \o
           StringMember(KeyProviderID, d.ProviderID) \o
           StringMember(KeyDisplayName, d.DisplayName) \o
           StringMember(KeyPhotoURL, d.PhotoURL), <<44>>) \o
  <<125>>

\* A claim set with every member of the claims struct present, each with a
\* value of its own.
FullDoc ==
  [Iss |-> StrI, Aud |-> StrA, Iat |-> 1, Exp |-> 2,
   UserID |-> <<117>>, Email |-> <<101>>, Verified |-> TRUE,
   ProviderID |-> <<112>>, DisplayName |-> <<100>>, PhotoURL |-> <<104>>,
   Algorithm |-> EmptyStr, KeyID |-> EmptyStr]

\* The claim sets and the headers of the tokens of the model.
ClaimsDocs ==
  {[ZeroDoc EXCEPT !.Iss = i, !.Aud = a, !.Exp = e] :
     i \in {StrI, StrJ}, a \in {StrA, StrB}, e \in {0, 1}} \cup {ZeroDoc, FullDoc}
HeaderDocs ==
  {[ZeroDoc EXCEPT !.Algorithm = RS256, !.KeyID = StrK],
   [ZeroDoc EXCEPT !.Algorithm = RS256, !.KeyID = StrM],
   [ZeroDoc EXCEPT !.Algorithm = HS256, !.KeyID = StrK],
   [ZeroDoc EXCEPT !.KeyID = StrK]}
JSONDocs == ClaimsDocs \cup HeaderDocs

\* The texts of the objects, computed once.
JSONTable == [d \in JSONDocs |-> JSONText(d)]

SyntaxError == "invalid JSON"

\* json.Unmarshal into a struct: the members named by the struct's tags are
\* stored, the other members are ignored; a text that is no JSON value is an
\* error.  Every text of the model that is not in JSONTable is a truncated
\* object or the empty text.
Unmarshal(b) ==
  LET ds == {d \in JSONDocs : JSONTable[d] = b}
  IN IF ds = {} THEN [err |-> SyntaxError, doc |-> ZeroDoc]
     ELSE [err |-> "nil", doc |-> CHOOSE d \in ds : TRUE]

\* ------------------------------------------------------------------------
\* crypto/x509 signatures, abstracted: a certificate holds a key, and a
\* signature of a text under a key is the key followed by a checksum of the
\* text.
\* ------------------------------------------------------------------------
RECURSIVE SumBytes(_)
\* the sum of the bytes modulo 256, halving the text
SumBytes(b) ==
  IF Len(b) = 0 THEN 0
  ELSE IF Len(b) = 1 THEN b[1] % 256
  ELSE LET half == Len(b) \div 2
       IN (SumBytes(SubSeq(b, 1, half)) + SumBytes(SubSeq(b, half + 1, Len(b)))) % 256

Sign(key, signed) == <<key, SumBytes(signed)>>

\* cert.CheckSignature(x509.SHA256WithRSA, signed, signature) = nil
CheckSignature(cert, signed, signature) == signature = Sign(cert.key, signed)

\* The certificates the endpoint serves for the key ids "k" and "m".
CertK == [key |-> 1]
CertM == [key |-> 2]
NoCert == [key |-> 0]

\* ------------------------------------------------------------------------
\* strings.Split
\* ------------------------------------------------------------------------
\* strings.Split(s, sep) for a separator of one character: the texts between
\* the separators, one more than there are separators.
Split(s, sep) ==
  LET seps == {n \in 1..Len(s) : s[n] = sep}
      \* the position of the k-th separator; 0 before the first and
      \* Len(s)+1 after the last
      pos(k) == IF k = 0 THEN 0
                ELSE IF k > Cardinality(seps) THEN Len(s) + 1
                ELSE CHOOSE n \in seps : Cardinality({m \in seps : m < n}) = k - 1
  IN [k \in 1..(Cardinality(seps) + 1) |-> SubSeq(s, pos(k - 1) + 1, pos(k) - 1)]

\* ------------------------------------------------------------------------
\* Go slices: a nil slice and a non-nil slice of length 0 are different values
\* of the same length.
\* ------------------------------------------------------------------------
NilSlice == [isNil |-> TRUE, elems |-> <<>>]
Slice(elems) == [isNil |-> FALSE, elems |-> elems]
len(a) == Len(a.elems)

inArray(a, e) == \E n \in 1..Len(a.elems) : a.elems[n] = e

\* ------------------------------------------------------------------------
\* Certificates
\* ------------------------------------------------------------------------
\* An error of the certificate cache: a message and the text formatted into
\* it.  NilError is the nil error.
NilError == [msg |-> "nil", arg |-> <<>>]
\* fmt's rendering of a nil error under the verb %s: "%!s(<nil>)"
FormatS(e) == IF e = NilError THEN <<37, 33, 115, 40, 60, 110, 105, 108, 62, 41>> ELSE <<>>

\* Certificates.Cert on the cache c = [certs, err].
Cert(c, keyID) ==
  IF keyID \in DOMAIN c.certs
    THEN [cert |-> c.certs[keyID], err |-> NilError]
  ELSE IF c.err = NilError
    THEN [cert |-> NoCert,
          err |-> [msg |-> "certificate not found for: %s", arg |-> FormatS(c.err)]]
  ELSE [cert |-> NoCert, err |-> c.err]

retryInterval == 30
defaultCertsCacheTime == 3600

\* ------------------------------------------------------------------------
\* cacheTime: the max-age of a Cache-Control header, in seconds
\* ------------------------------------------------------------------------
Comma == 44
\* the white space of strings.TrimSpace among ASCII characters
SpaceChars == {9, 10, 11, 12, 13, 32}

\* strings.TrimSpace
TrimSpace(s) ==
  LET solid == {n \in 1..Len(s) : s[n] \notin SpaceChars}
  IN IF solid = {} THEN <<>>
     ELSE SubSeq(s, CHOOSE n \in solid : \A m \in solid : n <= m,
                    CHOOSE n \in solid : \A m \in solid : m <= n)

\* strings.HasPrefix
HasPrefix(s, prefix) ==
  Len(s) >= Len(prefix) /\ SubSeq(s, 1, Len(prefix)) = prefix

\* const prefix = "max-age="
MaxAgePrefix == <<109, 97, 120, 45, 97, 103, 101, 61>>

RECURSIVE DigitsValue(_)
\* the number a sequence of decimal digits writes
DigitsValue(ds) ==
  IF Len(ds) = 0 THEN 0
  ELSE DigitsValue(SubSeq(ds, 1, Len(ds) - 1)) * 10 + (ds[Len(ds)] - 48)

AtoiSyntaxError == "strconv.Atoi: invalid syntax"

\* strconv.Atoi: an optional sign and one or more decimal digits.
Atoi(s) ==
  LET signed == Len(s) > 0 /\ s[1] \in {43, 45}
      ds == IF signed THEN Tail(s) ELSE s
  IN IF Len(ds) = 0 \/ (\E n \in 1..Len(ds) : ds[n] < 48 \/ ds[n] > 57)
       THEN [n |-> 0, err |-> AtoiSyntaxError]
     ELSE [n |-> IF signed /\ s[1] = 45 THEN 0 - DigitsValue(ds) ELSE DigitsValue(ds),
           err |-> "nil"]

\* the directives taken as they are split, with their white space
cacheTime_untrimmed(header) ==
  LET ss == Split(header, Comma)
      value(n) == Atoi(SubSeq(ss[n], Len(MaxAgePrefix) + 1, Len(ss[n])))
      hits == {n \in 1..Len(ss) :
                 HasPrefix(ss[n], MaxAgePrefix) /\ value(n).err = "nil"}
  IN IF hits = {} THEN defaultCertsCacheTime
     ELSE value(CHOOSE n \in hits : \A m \in hits : n <= m).n

\* cacheTime on the value of resp.Header.Get("Cache-Control"): the number of
\* the first directive that starts with "max-age=" and continues with an
\* integer, the default when there is none.
cacheTime(header) ==
  LET ss == Split(header, Comma)
      value(n) == Atoi(SubSeq(TrimSpace(ss[n]), Len(MaxAgePrefix) + 1,
                              Len(TrimSpace(ss[n]))))
      hits == {n \in 1..Len(ss) :
                 HasPrefix(TrimSpace(ss[n]), MaxAgePrefix) /\ value(n).err = "nil"}
  IN IF hits = {} THEN defaultCertsCacheTime
     ELSE value(CHOOSE n \in hits : \A m \in hits : n <= m).n

\* ------------------------------------------------------------------------
\* parseCerts and downloadCerts
\* ------------------------------------------------------------------------
\* The certificate map before any is assigned, and the nil map parseCerts
\* returns with an error.
EmptyCerts == [k \in {} |-> NoCert]

\* The value of an entry of the response body: the PEM text of a
\* certificate, the PEM text of bytes that are no certificate, or a text
\* that is no PEM text.
PEMOf(cert) == [isPEM |-> TRUE, isCert |-> TRUE, cert |-> cert]
PEMOfGarbage == [isPEM |-> TRUE, isCert |-> FALSE, cert |-> NoCert]
NotPEM == [isPEM |-> FALSE, isCert |-> FALSE, cert |-> NoCert]

\* pem.Decode: the first PEM block of the text, nil when there is none.
pemDecode(v) ==
  [isNil |-> ~v.isPEM, Bytes |-> [isCert |-> v.isCert, cert |-> v.cert]]

X509Error == [msg |-> "asn1: structure error", arg |-> <<>>]
\* x509.ParseCertificate
ParseCertificate(der) ==
  IF der.isCert THEN [c |-> der.cert, err |-> NilError]
  ELSE [c |-> NoCert, err |-> X509Error]

JSONError == [msg |-> "invalid character", arg |-> <<>>]
\* json.Unmarshal(resp, &m) for m of type map[string]string: the members of
\* an object of strings are stored; null leaves no entry and is no error;
\* any other text is an error.
UnmarshalMap(body) ==
  IF body.kind = "invalid" THEN [m |-> EmptyCerts, err |-> JSONError]
  ELSE IF body.kind = "null" THEN [m |-> EmptyCerts, err |-> NilError]
  ELSE [m |-> body.m, err |-> NilError]

\* What parseCerts does: it returns a map or an error, or panics.
Parsed(certs, err) == [certs |-> certs, isNil |-> err # NilError, err |-> err, panic |-> FALSE]
Panic == [certs |-> EmptyCerts, isNil |-> TRUE, err |-> NilError, panic |-> TRUE]

RECURSIVE parseEntries(_, _, _)
\* The loop of parseCerts over the entries of m in the order given, acc the
\* certificates parsed so far.  block.Bytes of a nil block is a nil pointer
\* dereference.
parseEntries(m, order, acc) ==
  IF Len(order) = 0 THEN Parsed(acc, NilError)
  ELSE LET k == Head(order)
           block == pemDecode(m[k])
       IN IF block.isNil THEN Panic
          ELSE LET pc == ParseCertificate(block.Bytes)
               IN IF pc.err # NilError THEN Parsed(EmptyCerts, pc.err)
                  ELSE parseEntries(m, Tail(order),
                                    [x \in DOMAIN acc \cup {k} |->
                                       IF x = k THEN pc.c ELSE acc[x]])

\* The orders in which a range statement can visit the keys of a map.
Orders(keys) ==
  {o \in [1..Cardinality(keys) -> keys] :
     \A i, j \in 1..Cardinality(keys) : i # j => o[i] # o[j]}

\* parseCerts: what it can do on a body, one outcome for each order of the
\* range over the map.
parseCerts(body) ==
  LET um == UnmarshalMap(body)
  IN IF um.err # NilError THEN {Parsed(EmptyCerts, um.err)}
     ELSE {parseEntries(um.m, o, EmptyCerts) : o \in Orders(DOMAIN um.m)}

GetError == [msg |-> "Get url: connection refused", arg |-> <<>>]
StatusError == [msg |-> "get url: 500 Internal Server Error", arg |-> <<>>]
ReadError == [msg |-> "unexpected EOF", arg |-> <<>>]

\* What downloadCerts does: it returns certificates and a cache time, or an
\* error, or panics in parseCerts.
Downloaded(certs, d, err) == [certs |-> certs, cacheTime |-> d, err |-> err, panic |-> FALSE]
DownloadPanic == [certs |-> EmptyCerts, cacheTime |-> 0, err |-> NilError, panic |-> TRUE]

\* downloadCerts on what the transport gives for the request.
downloadCerts(resp) ==
  IF resp.getErr THEN {Downloaded(EmptyCerts, 0, GetError)}
  ELSE IF resp.status # 200 THEN {Downloaded(EmptyCerts, 0, StatusError)}
  ELSE IF resp.readErr THEN {Downloaded(EmptyCerts, 0, ReadError)}
  ELSE {IF p.panic THEN DownloadPanic
        ELSE IF p.err # NilError THEN Downloaded(EmptyCerts, 0, p.err)
        ELSE Downloaded(p.certs, cacheTime(resp.cacheControl), NilError) :
          p \in parseCerts(resp.body)}

\* ------------------------------------------------------------------------
\* Token
\* ------------------------------------------------------------------------
ErrMalformed == "malfored token"
ErrInvalidAlgorithm == "invalid algorithm"
ErrInvalidIssuer == "invalid issuer"
ErrInvalidAudience == "invalid audience"
ErrInvalidSignature == "invalid signature"
ErrKeyNotFound == "key not found"
ErrExpired == "token expired"
ErrMissingAudience == "missing audiences for token validation"

\* time.Unix(sec, 0) in ticks of the clock
Unix(sec) == sec * TicksPerSecond
\* t.After(u)
After(t, u) == t > u

\* The value of a nil *Token.
NilToken ==
  [Issuer |-> EmptyStr, Audience |-> EmptyStr, IssueAt |-> 0, ExpireAt |-> 0,
   LocalID |-> EmptyStr, Email |-> EmptyStr, EmailVerified |-> FALSE,
   ProviderID |-> EmptyStr, DisplayName |-> EmptyStr, PhotoURL |-> EmptyStr,
   TokenString |-> <<>>]

\* Token.Expired at the time tnow
Expired(t, tnow) == After(tnow, t.ExpireAt)

\* return nil, err; lookups are the key ids the call asked the certificates for
Fail(err, lookups) ==
  [isNil |-> TRUE, token |-> NilToken, err |-> err, lookups |-> lookups]

\* a nil check in place of the length
missingAudience_nilOnly(audiences) == audiences.isNil

\* len(audiences) == 0
missingAudience(audiences) == len(audiences) = 0

\* extra segments let through
wrongSegmentCount_tooFew(parts) == Len(parts) < 3

\* len(parts) != 3
wrongSegmentCount(parts) == Len(parts) # 3

\* the issuer check left out
issuerRejected_unchecked(issuers, iss) == FALSE

\* the nil test left out
issuerRejected_nilChecked(issuers, iss) == ~inArray(issuers, iss)

\* issuers != nil && !inArray(issuers, claims.Iss)
issuerRejected(issuers, iss) == ~issuers.isNil /\ ~inArray(issuers, iss)

\* a token without an aud claim let through
audienceRejected_emptyAud(audiences, aud) ==
  aud # EmptyStr /\ ~inArray(audiences, aud)

\* !inArray(audiences, claims.Aud)
audienceRejected(audiences, aud) == ~inArray(audiences, aud)

\* the operands of After exchanged
expired_reversed(exp, tnow) == After(Unix(exp), tnow)

\* exp := time.Unix(claims.Exp, 0); time.Now().After(exp)
expired(exp, tnow) == After(tnow, Unix(exp))

\* the error returned when the header segment does not decode: return nil, err
headerDecodeError(err) == err

\* a header without "alg" let through
algorithmRejected_missingAccepted(alg) == alg # EmptyStr /\ alg # RS256

\* header.Algorithm != "RS256"
algorithmRejected(alg) == alg # RS256

\* the error of the lookup returned as it is
keyLookupError_propagated(e) == e.msg

\* the error returned when certs.Cert(header.KeyID) returns the error e
keyLookupError(e) == ErrKeyNotFound

\* the result of CheckSignature ignored
signatureRejected_unchecked(cert, signed, signature) == FALSE

\* only the key of the signature compared
signatureRejected_keyOnly(cert, signed, signature) ==
  Len(signature) = 0 \/ signature[1] # cert.key

\* cert.CheckSignature(...) != nil
signatureRejected(cert, signed, signature) ==
  ~CheckSignature(cert, signed, signature)

\* the expiry checked before the issuer and the audience
claimsError_expiryFirst(claims, audiences, issuers, tnow) ==
  IF expired(claims.Exp, tnow) THEN ErrExpired
  ELSE IF issuerRejected(issuers, claims.Iss) THEN ErrInvalidIssuer
  ELSE IF audienceRejected(audiences, claims.Aud) THEN ErrInvalidAudience
  ELSE "nil"

\* The checks of the claim set, in the order of the code: issuer, audience,
\* expiry.  "nil" when the claim set passes them.
claimsError(claims, audiences, issuers, tnow) ==
  IF issuerRejected(issuers, claims.Iss) THEN ErrInvalidIssuer
  ELSE IF audienceRejected(audiences, claims.Aud) THEN ErrInvalidAudience
  ELSE IF expired(claims.Exp, tnow) THEN ErrExpired
  ELSE "nil"

\* the times of the token exchanged
newToken_swappedTimes(claims, token) ==
  [Issuer |-> claims.Iss,
   Audience |-> claims.Aud,
   IssueAt |-> Unix(claims.Exp),
   ExpireAt |-> Unix(claims.Iat),
   LocalID |-> claims.UserID,
   Email |-> claims.Email,
   EmailVerified |-> claims.Verified,
   ProviderID |-> claims.ProviderID,
   DisplayName |-> claims.DisplayName,
   PhotoURL |-> claims.PhotoURL,
   TokenString |-> token]

\* The Token returned at the end of VerifyToken: &Token{...}
newToken(claims, token) ==
  [Issuer |-> claims.Iss,
   Audience |-> claims.Aud,
   IssueAt |-> Unix(claims.Iat),
   ExpireAt |-> Unix(claims.Exp),
   LocalID |-> claims.UserID,
   Email |-> claims.Email,
   EmailVerified |-> claims.Verified,
   ProviderID |-> claims.ProviderID,
   DisplayName |-> claims.DisplayName,
   PhotoURL |-> claims.PhotoURL,
   TokenString |-> token]

\* VerifyToken at the time tnow against the certificates c = [certs, err].
VerifyToken(token, audiences, issuers, c, tnow) ==
  IF missingAudience(audiences) THEN Fail(ErrMissingAudience, <<>>)
  ELSE LET parts == Split(token, Dot) IN
  IF wrongSegmentCount(parts) THEN Fail(ErrMalformed, <<>>)
  ELSE LET cseg == decodeSegment(parts[2]) IN
  IF cseg.err # "nil" THEN Fail(ErrMalformed, <<>>)
  ELSE LET cu == Unmarshal(cseg.bytes)
           claims == cu.doc IN
  IF cu.err # "nil" THEN Fail(ErrMalformed, <<>>)
  ELSE LET cerr == claimsError(claims, audiences, issuers, tnow) IN
  IF cerr # "nil" THEN Fail(cerr, <<>>)
  ELSE LET hseg == decodeSegment(parts[1]) IN
  IF hseg.err # "nil" THEN Fail(headerDecodeError(hseg.err), <<>>)
  ELSE LET hu == Unmarshal(hseg.bytes)
           header == hu.doc IN
  IF hu.err # "nil" THEN Fail(ErrMalformed, <<>>)
  ELSE IF algorithmRejected(header.Algorithm) THEN Fail(ErrInvalidAlgorithm, <<>>)
  ELSE LET found == Cert(c, header.KeyID) IN
  IF found.err # NilError THEN Fail(keyLookupError(found.err), <<header.KeyID>>)
  ELSE LET sseg == decodeSegment(parts[3]) IN
  IF sseg.err # "nil" THEN Fail(ErrMalformed, <<header.KeyID>>)
  ELSE IF signatureRejected(found.cert, parts[1] \o <<Dot>> \o parts[2], sseg.bytes)
    THEN Fail(ErrInvalidSignature, <<header.KeyID>>)
  ELSE [isNil |-> FALSE,
        token |-> newToken(claims, token),
        err |-> "nil",
        lookups |-> <<header.KeyID>>]

\* ------------------------------------------------------------------------
\* The inputs of the model
\* ------------------------------------------------------------------------
\* "{" : decodes, and is no JSON value
TruncatedJSON == <<123>>
\* "e!" : not base64url
NotBase64 == <<101, 33>>

HeaderSegments ==
  {RawURLEncodeToString(JSONTable[h]) : h \in HeaderDocs}
    \cup {RawURLEncodeToString(TruncatedJSON), NotBase64}
PayloadSegments ==
  {RawURLEncodeToString(JSONTable[p]) : p \in ClaimsDocs}
    \cup {RawURLEncodeToString(TruncatedJSON), NotBase64}
\* a signature with its lowest bit flipped
FlipBit(sig) ==
  [sig EXCEPT ![Len(sig)] = IF @ % 2 = 0 THEN @ + 1 ELSE @ - 1]

\* The signatures of header.payload under the keys of CertK and CertM, the
\* signature under the key of CertK with one bit flipped, and a segment that
\* does not decode.
SignatureSegments(h, p) ==
  {RawURLEncodeToString(Sign(key, h \o <<Dot>> \o p)) : key \in {CertK.key, CertM.key}}
    \cup {RawURLEncodeToString(FlipBit(Sign(CertK.key, h \o <<Dot>> \o p))), NotBase64}

ValidHeader == RawURLEncodeToString(JSONTable[[ZeroDoc EXCEPT !.Algorithm = RS256, !.KeyID = StrK]])
ValidPayload == RawURLEncodeToString(JSONTable[[ZeroDoc EXCEPT !.Iss = StrI, !.Aud = StrA, !.Exp = 1]])
ValidSignature == RawURLEncodeToString(Sign(CertK.key, ValidHeader \o <<Dot>> \o ValidPayload))

\* Token strings of three segments, and of one, two and four segments.
Tokens ==
  UNION {{h \o <<Dot>> \o p \o <<Dot>> \o sg : sg \in SignatureSegments(h, p)} :
           h \in HeaderSegments, p \in PayloadSegments} \cup
  {<<>>,
   ValidHeader \o ValidPayload \o <<Dot>> \o ValidSignature,
   ValidHeader \o <<Dot>> \o ValidPayload \o <<Dot>> \o ValidSignature
      \o <<Dot>> \o ValidSignature}

AudienceLists == {NilSlice, Slice(<<>>), Slice(<<StrA>>), Slice(<<StrB, StrA>>)}
IssuerLists == {NilSlice, Slice(<<>>), Slice(<<StrI>>)}

\* What downloadCerts can return: an error, or the certificates of the
\* response and its cache time.
FetchError == [msg |-> "get url: 500 Internal Server Error", arg |-> <<>>]
DownloadResults ==
  {[certs |-> EmptyCerts, cacheTime |-> 0, err |-> FetchError],
   [certs |-> [k \in {StrK} |-> CertK], cacheTime |-> defaultCertsCacheTime,
    err |-> NilError],
   [certs |-> [k \in {StrK, StrM} |-> IF k = StrK THEN CertK ELSE CertM],
    cacheTime |-> 7200, err |-> NilError]}

\* ------------------------------------------------------------------------
\* State
\* ------------------------------------------------------------------------
VARIABLES
  now,    \* time.Now(), in ticks
  certs,  \* Certificates.certs
  err,    \* Certificates.err
  t,      \* Certificates.t: the pending timer and its delay in seconds
  last,   \* the VerifyToken call of the step just taken, and what it returned
  codec,  \* a byte sequence on its way through an encoder and decodeSegment
  cc,     \* a Cache-Control header on its way through cacheTime
  fetched,  \* the certificates of the last download that returned no error
  refresh,  \* the update of the step just taken: its response and what it did
  looked,   \* the Cert call of the step just taken, and the one before it
  running,  \* the process has not been ended by a panic
  mu,         \* Certificates.mu: the update that holds Lock, the readers that hold RLock
  ups,        \* the calls of update that have started, each with its position
  timers,     \* the timers of time.AfterFunc: the pending ones, the one in c.t
  rd,         \* the goroutines that call Cert, each with its position
  committed,  \* the map and the error as the last update left them at Unlock
  ul,         \* a UserList, its goroutine, its channel and the one who reads it
  oob         \* a GetOOBCode call: the request, whether it was sent, the return

lockVars == <<mu, ups, timers, rd, committed>>
apiVars == <<ul, oob>>

vars ==
  <<now, certs, err, t, last, codec, cc, fetched, refresh, looked, running,
    lockVars, apiVars>>

NoTimer == [armed |-> FALSE, delay |-> 0]
NoCall ==
  [called |-> FALSE, token |-> <<>>, audiences |-> NilSlice,
   issuers |-> NilSlice, ret |-> Fail("nil", <<>>)]

\* The goroutines that call Cert.
NumReaders == 2
Readers == 1..NumReaders

\* A goroutine that is not calling Cert.
IdleReader ==
  [pc |-> "idle", keyID |-> EmptyStr, snap |-> <<EmptyCerts, NilError>>,
   certs |-> EmptyCerts, err |-> NilError]

\* No timer has been made and c.t is nil.
NoTimers == [pending |-> {}, stored |-> 0, made |-> 0, delay |-> <<>>]

\* The responses of the certificates endpoint.
OKResponse ==
  [getErr |-> FALSE, status |-> 200, readErr |-> FALSE,
   body |-> [kind |-> "object", m |-> [k \in {StrK} |-> PEMOf(CertK)]],
   cacheControl |-> <<>>]

\* No update has run.
NoRefresh ==
  [done |-> FALSE, by |-> "", resp |-> OKResponse,
   result |-> Downloaded(EmptyCerts, 0, NilError), before |-> EmptyCerts,
   beforeErr |-> NilError]

\* No Cert call has been made.
NoLook ==
  [called |-> FALSE, keyID |-> EmptyStr,
   ret |-> Cert([certs |-> EmptyCerts, err |-> NilError], EmptyStr),
   again |-> FALSE,
   prev |-> Cert([certs |-> EmptyCerts, err |-> NilError], EmptyStr)]

\* No UserList has been made.
NoList ==
  [pc |-> "none", pages |-> <<>>, pageToken |-> 0, Error |-> FALSE,
   ch |-> <<>>, closed |-> FALSE, closes |-> 0, afterClose |-> 0,
   page |-> 0, i |-> 0, received |-> <<>>, failures |-> 0]

\* The zero GetOOBCodeRequest.
ZeroRequest ==
  [RequestType |-> "", Email |-> "", CAPTCHAChallenge |-> "",
   CAPTCHAResponse |-> "", NewEmail |-> "", Token |-> ""]

\* What GetOOBCode returns: the OOBCode of the response, and the error.
Returned(code, e) == [OOBCode |-> code, err |-> e]

\* No GetOOBCode call has been made.
NoCode ==
  [step |-> "none", req |-> ZeroRequest, sent |-> FALSE, answer |-> "",
   ret |-> Returned("", "nil")]

\* No header is being read.
NoHeader == [step |-> "idle", directives |-> <<>>, header |-> <<>>, d |-> 0]

\* No byte sequence is being encoded.
NoCodec ==
  [step |-> "idle", x |-> <<>>, padded |-> FALSE, s |-> <<>>,
   out |-> [bytes |-> <<>>, err |-> "nil"]]

\* The Certificates of a new Client: &Certificates{URL: publicCertsURL}.
Init ==
  /\ now = 0
  /\ certs = EmptyCerts
  /\ err = NilError
  /\ t = NoTimer
  /\ last = NoCall
  /\ codec = NoCodec
  /\ cc = NoHeader
  /\ fetched = EmptyCerts
  /\ refresh = NoRefresh
  /\ looked = NoLook
  /\ running = TRUE
  /\ mu = [writer |-> 0, readers |-> {}]
  /\ ups = <<>>
  /\ timers = NoTimers
  /\ rd = [r \in Readers |-> IdleReader]
  /\ committed = <<EmptyCerts, NilError>>
  /\ ul = NoList
  /\ oob = NoCode

\* an error that stays until the next error
updateLocked_stickyError(r) ==
  /\ err' = IF r.err # NilError THEN r.err ELSE err
  /\ certs' = IF r.err # NilError THEN certs ELSE r.certs
  /\ t' = [armed |-> TRUE,
           delay |-> IF r.err # NilError THEN retryInterval ELSE r.cacheTime]
  /\ fetched' = IF r.err # NilError THEN fetched ELSE r.certs

\* Certificates.update after downloadCerts has returned r: the error is
\* recorded, the certificates are assigned when there is none, the timer is
\* stopped and a new one set.
updateLocked(r) ==
  /\ err' = r.err
  /\ certs' = IF r.err # NilError THEN certs ELSE r.certs
  /\ t' = [armed |-> TRUE,
           delay |-> IF r.err # NilError THEN retryInterval ELSE r.cacheTime]
  /\ fetched' = IF r.err # NilError THEN fetched ELSE r.certs

\* Certificates.update, run by the first load and by the timer it sets.
update ==
  \E r \in DownloadResults :
    /\ updateLocked(r)
    /\ last' = NoCall
    /\ UNCHANGED <<now, codec, cc, refresh, looked, running, lockVars, apiVars>>

\* A caller verifies a token.
CallVerifyToken ==
  /\ ~last.called
  /\ \E token \in Tokens, audiences \in AudienceLists, issuers \in IssuerLists :
       last' = [called |-> TRUE, token |-> token, audiences |-> audiences,
                issuers |-> issuers,
                ret |-> VerifyToken(token, audiences, issuers,
                                    [certs |-> certs, err |-> err], now)]
  /\ UNCHANGED <<now, certs, err, t, codec, cc, fetched, refresh, looked, running, lockVars, apiVars>>

\* The caller takes the result.
Return ==
  /\ last.called
  /\ last' = NoCall
  /\ UNCHANGED <<now, certs, err, t, codec, cc, fetched, refresh, looked, running, lockVars, apiVars>>

\* Time passes.
Tick ==
  /\ now < MaxNow
  /\ now' = now + 1
  /\ last' = NoCall
  /\ UNCHANGED <<certs, err, t, codec, cc, fetched, refresh, looked, running, lockVars, apiVars>>

Next == update \/ CallVerifyToken \/ Return \/ Tick

Spec == Init /\ [][Next]_vars

\* ------------------------------------------------------------------------
\* decodeSegment on the encodings of byte sequences
\* ------------------------------------------------------------------------
\* The byte sequences have at most MaxBytes bytes, of the values ByteValues:
\* the smallest and the largest byte, and bytes whose encodings hold '-',
\* '_' and letters.
MaxBytes == 3
ByteValues == {0, 97, 251, 255}
ByteStrings == UNION {[1..n -> ByteValues] : n \in 0..MaxBytes}

\* Any byte sequence may be encoded.
InitCodec ==
  /\ now = 0
  /\ certs = EmptyCerts
  /\ err = NilError
  /\ t = NoTimer
  /\ last = NoCall
  /\ codec \in {[NoCodec EXCEPT !.step = "input", !.x = x] : x \in ByteStrings}
  /\ cc = NoHeader
  /\ fetched = EmptyCerts
  /\ refresh = NoRefresh
  /\ looked = NoLook
  /\ running = TRUE
  /\ mu = [writer |-> 0, readers |-> {}]
  /\ ups = <<>>
  /\ timers = NoTimers
  /\ rd = [r \in Readers |-> IdleReader]
  /\ committed = <<EmptyCerts, NilError>>
  /\ ul = NoList
  /\ oob = NoCode

\* The sequence is encoded without padding, as the segments of a token are.
EncodeRaw ==
  /\ codec.step = "input"
  /\ codec' = [codec EXCEPT !.step = "encoded", !.s = RawURLEncodeToString(codec.x)]
  /\ UNCHANGED <<now, certs, err, t, last, cc, fetched, refresh, looked, running, lockVars, apiVars>>

\* The sequence is encoded with padding.
EncodePadded ==
  /\ codec.step = "input"
  /\ codec' = [codec EXCEPT !.step = "encoded", !.padded = TRUE,
                            !.s = URLEncodeToString(codec.x)]
  /\ UNCHANGED <<now, certs, err, t, last, cc, fetched, refresh, looked, running, lockVars, apiVars>>

\* decodeSegment is called on the text.
CallDecodeSegment ==
  /\ codec.step = "encoded"
  /\ codec' = [codec EXCEPT !.step = "decoded", !.out = decodeSegment(codec.s)]
  /\ UNCHANGED <<now, certs, err, t, last, cc, fetched, refresh, looked, running, lockVars, apiVars>>

NextCodec == EncodeRaw \/ EncodePadded \/ CallDecodeSegment

SpecCodec == InitCodec /\ [][NextCodec]_vars

\* ------------------------------------------------------------------------
\* cacheTime on the Cache-Control headers of responses
\* ------------------------------------------------------------------------
\* A directive of a header: its text, whether it is max-age=N with an
\* integer N, and N.
Directive(text, isMaxAge, n) == [text |-> text, isMaxAge |-> isMaxAge, n |-> n]

RECURSIVE Itoa(_)
\* the decimal digits of a natural number
Itoa(n) == IF n < 10 THEN <<48 + n>> ELSE Itoa(n \div 10) \o <<48 + (n % 10)>>

\* max-age=N
MaxAge(n) == Directive(MaxAgePrefix \o Itoa(n), TRUE, n)

\* "public", "max-age=7200", "max-age=30", "max-age=0",
\* "max-age=invalid value", "max-age=" and "s-maxage=10"
Directives ==
  {Directive(<<112, 117, 98, 108, 105, 99>>, FALSE, 0),
   MaxAge(7200), MaxAge(30), MaxAge(0),
   Directive(MaxAgePrefix \o <<105, 110, 118, 97, 108, 105, 100, 32, 118, 97, 108, 117, 101>>, FALSE, 0),
   Directive(MaxAgePrefix, FALSE, 0),
   Directive(<<115, 45, 109, 97, 120, 97, 103, 101, 61, 49, 48>>, FALSE, 0)}

\* A header has at most MaxDirectives directives; a header without
\* directives is an absent header (Header.Get returns "").
MaxDirectives == 3
DirectiveLists == UNION {[1..n -> Directives] : n \in 0..MaxDirectives}

\* Any list of directives may be sent.
InitCacheTime ==
  /\ now = 0
  /\ certs = EmptyCerts
  /\ err = NilError
  /\ t = NoTimer
  /\ last = NoCall
  /\ codec = NoCodec
  /\ cc \in {[NoHeader EXCEPT !.step = "input", !.directives = ds] :
               ds \in DirectiveLists}
  /\ fetched = EmptyCerts
  /\ refresh = NoRefresh
  /\ looked = NoLook
  /\ running = TRUE
  /\ mu = [writer |-> 0, readers |-> {}]
  /\ ups = <<>>
  /\ timers = NoTimers
  /\ rd = [r \in Readers |-> IdleReader]
  /\ committed = <<EmptyCerts, NilError>>
  /\ ul = NoList
  /\ oob = NoCode

\* The server writes the header, the directives separated by "," or ", ".
WriteHeader ==
  /\ cc.step = "input"
  /\ \E sep \in {<<Comma>>, <<Comma, 32>>} :
       cc' = [cc EXCEPT !.step = "written",
                        !.header = JoinWith([n \in 1..Len(cc.directives) |->
                                               cc.directives[n].text], sep)]
  /\ UNCHANGED <<now, certs, err, t, last, codec, fetched, refresh, looked, running, lockVars, apiVars>>

\* cacheTime is called on the response.
CallCacheTime ==
  /\ cc.step = "written"
  /\ cc' = [cc EXCEPT !.step = "done", !.d = cacheTime(cc.header)]
  /\ UNCHANGED <<now, certs, err, t, last, codec, fetched, refresh, looked, running, lockVars, apiVars>>

NextCacheTime == WriteHeader \/ CallCacheTime

SpecCacheTime == InitCacheTime /\ [][NextCacheTime]_vars

\* ------------------------------------------------------------------------
\* The certificate cache on the responses of the endpoint
\* ------------------------------------------------------------------------
\* "public, max-age=7200"
PublicMaxAge7200 == <<112, 117, 98, 108, 105, 99, 44, 32, 109, 97, 120, 45, 97, 103, 101, 61, 55, 50, 48, 48>>

\* "max-age=0"
MaxAge0 == MaxAgePrefix \o <<48>>

\* "max-age=-5"
MaxAgeMinus5 == MaxAgePrefix \o <<45, 53>>

\* The Cache-Control headers of the responses: none, and these three.
CacheControls == {<<>>, PublicMaxAge7200, MaxAge0, MaxAgeMinus5}

\* The bodies: a text that is no JSON, null, and the objects with entries
\* for some of the key ids "k" and "m", each entry a certificate, PEM text
\* that is no certificate, or no PEM text.
EntryValues(k) == {PEMOf(IF k = StrK THEN CertK ELSE CertM), PEMOfGarbage, NotPEM}
Bodies ==
  {[kind |-> "invalid", m |-> EmptyCerts], [kind |-> "null", m |-> EmptyCerts]} \cup
  UNION {{[kind |-> "object", m |-> m] :
            m \in {f \in [ks -> UNION {EntryValues(k) : k \in ks}] :
                     \A k \in ks : f[k] \in EntryValues(k)}} :
           ks \in SUBSET {StrK, StrM}}

\* What the transport gives: no response, a response with another status
\* than 200, a body that cannot be read, and the responses with status 200.
Responses ==
  {[OKResponse EXCEPT !.getErr = TRUE],
   [OKResponse EXCEPT !.status = 500],
   [OKResponse EXCEPT !.readErr = TRUE]} \cup
  {[OKResponse EXCEPT !.body = b, !.cacheControl = h] :
     b \in Bodies, h \in CacheControls}

\* LoadCerts: c.update(transport) on new Certificates, on the goroutine of
\* the caller.  A panic of parseCerts leaves update before the lock is taken
\* and reaches the caller, who recovers from it or not.
LoadCerts ==
  /\ running
  /\ t = NoTimer
  /\ \E resp \in Responses : \E r \in downloadCerts(resp) :
       /\ refresh' = [done |-> TRUE, by |-> "LoadCerts", resp |-> resp,
                      result |-> r, before |-> certs,
                      beforeErr |-> err]
       /\ IF r.panic
            THEN /\ running' \in BOOLEAN
                 /\ UNCHANGED <<certs, err, t, fetched>>
            ELSE /\ updateLocked(r)
                 /\ UNCHANGED running
  /\ looked' = NoLook
  /\ UNCHANGED <<now, last, codec, cc, lockVars, apiVars>>

\* The timer set by update fires: c.update(transport) on a goroutine of its
\* own, where a panic of parseCerts ends the process.
TimerFires ==
  /\ running
  /\ t.armed
  /\ \E resp \in Responses : \E r \in downloadCerts(resp) :
       /\ refresh' = [done |-> TRUE, by |-> "timer", resp |-> resp,
                      result |-> r, before |-> certs,
                      beforeErr |-> err]
       /\ IF r.panic
            THEN /\ running' = FALSE
                 /\ t' = [t EXCEPT !.armed = FALSE]
                 /\ UNCHANGED <<certs, err, fetched>>
            ELSE /\ updateLocked(r)
                 /\ UNCHANGED running
  /\ looked' = NoLook
  /\ UNCHANGED <<now, last, codec, cc, lockVars, apiVars>>

\* A caller asks for the certificate of a key id.
CallCert ==
  /\ running
  /\ \E keyID \in {StrK, StrM} :
       looked' = [called |-> TRUE, keyID |-> keyID,
                  ret |-> Cert([certs |-> certs, err |-> err], keyID),
                  again |-> looked.called /\ looked.keyID = keyID,
                  prev |-> looked.ret]
  /\ UNCHANGED <<now, certs, err, t, last, codec, cc, fetched, refresh, running, lockVars, apiVars>>

NextCerts == LoadCerts \/ TimerFires \/ CallCert

SpecCerts == Init /\ [][NextCerts]_vars

\* ------------------------------------------------------------------------
\* update and Cert, statement by statement, under Certificates.mu
\* ------------------------------------------------------------------------
\* At most MaxUpdates calls of update start: the one of LoadCerts has the
\* number 1, the one started by the timer k has the number k.
MaxUpdates == 3

\* The responses of this part: a status other than 200, certificates with
\* and without max-age, with max-age=0, and an entry that is no PEM text.
LockResponses ==
  {[OKResponse EXCEPT !.status = 500],
   OKResponse,
   [OKResponse EXCEPT !.body.m = [k \in {StrK, StrM} |->
                                    PEMOf(IF k = StrK THEN CertK ELSE CertM)],
                      !.cacheControl = PublicMaxAge7200],
   [OKResponse EXCEPT !.cacheControl = MaxAge0],
   [OKResponse EXCEPT !.body.m = [k \in {StrK} |-> NotPEM]]}

\* the lock taken before the download
updateSteps_lockFirst ==
  <<"lock", "download", "setErr", "setCerts", "stop", "after", "unlock", "done">>

\* The statements of update in their order: downloadCerts, c.mu.Lock,
\* c.err = err, c.certs = certs, c.t.Stop, c.t = time.AfterFunc, and the
\* deferred c.mu.Unlock.
updateSteps ==
  <<"download", "lock", "setErr", "setCerts", "stop", "after", "unlock", "done">>

\* The statement after the statement pc.
nextStep(pc) ==
  updateSteps[(CHOOSE i \in 1..Len(updateSteps) : updateSteps[i] = pc) + 1]

\* The update u is at the statement pc.
At(u, pc) == u \in DOMAIN ups /\ ups[u].pc = pc

\* The update u moves to its next statement.
Advance(u) == ups' = [ups EXCEPT ![u].pc = nextStep(@)]

\* A call of update starts, with the number u.
Started(u) ==
  [k \in DOMAIN ups \cup {u} |->
     IF k = u THEN [pc |-> updateSteps[1], r |-> Downloaded(EmptyCerts, 0, NilError)]
     ELSE ups[k]]

\* a reader that does not take the lock
canRLock_unlocked(m) == TRUE

\* RWMutex: RLock is granted when no writer holds the lock.
canRLock(m) == m.writer = 0

\* RWMutex: Lock is granted when no writer and no reader holds the lock.
canLock(m) == m.writer = 0 /\ m.readers = {}

\* a timer that fires again and again
pendingAfterFire_periodic(pending, k) == pending

\* A timer of time.AfterFunc fires once.
pendingAfterFire(pending, k) == pending \ {k}

certVars == <<now, last, codec, cc, refresh, looked, apiVars>>

\* LoadCerts makes a Certificates and calls its update.
StartLoadCerts ==
  /\ running /\ ups = <<>>
  /\ ups' = Started(1)
  /\ UNCHANGED <<certVars, certs, err, t, fetched, running, mu, timers, rd, committed>>

\* certs, cacheTime, err := downloadCerts(c.url, transport). A panic on
\* the goroutine of a timer ends the process; the one of LoadCerts reaches
\* the caller of LoadCerts, which may recover from it.
Download(u) ==
  /\ running /\ At(u, "download")
  /\ \E resp \in LockResponses : \E r \in downloadCerts(resp) :
       IF r.panic
       THEN /\ running' \in (IF u = 1 THEN BOOLEAN ELSE {FALSE})
            /\ ups' = [ups EXCEPT ![u].pc = "panic"]
            /\ mu' = IF mu.writer = u THEN [mu EXCEPT !.writer = 0] ELSE mu
       ELSE /\ ups' = [ups EXCEPT ![u] = [pc |-> nextStep("download"), r |-> r]]
            /\ UNCHANGED <<running, mu>>
  /\ UNCHANGED <<certVars, certs, err, t, fetched, timers, rd, committed>>

\* c.mu.Lock()
Lock(u) ==
  /\ running /\ At(u, "lock") /\ canLock(mu)
  /\ mu' = [mu EXCEPT !.writer = u]
  /\ Advance(u)
  /\ UNCHANGED <<certVars, certs, err, t, fetched, running, timers, rd, committed>>

\* c.err = err
SetErr(u) ==
  /\ running /\ At(u, "setErr")
  /\ err' = ups[u].r.err
  /\ Advance(u)
  /\ UNCHANGED <<certVars, certs, t, fetched, running, mu, timers, rd, committed>>

\* if err != nil { cacheTime = retryInterval } else { c.certs = certs }
SetCerts(u) ==
  /\ running /\ At(u, "setCerts")
  /\ IF ups[u].r.err # NilError
     THEN /\ ups' = [ups EXCEPT ![u] = [pc |-> nextStep("setCerts"),
                                         r |-> [ups[u].r EXCEPT !.cacheTime = retryInterval]]]
          /\ UNCHANGED <<certs, fetched>>
     ELSE /\ certs' = ups[u].r.certs
          /\ fetched' = ups[u].r.certs
          /\ Advance(u)
  /\ UNCHANGED <<certVars, err, t, running, mu, timers, rd, committed>>

\* if c.t != nil { c.t.Stop() }
Stop(u) ==
  /\ running /\ At(u, "stop")
  /\ timers' = [timers EXCEPT !.pending = @ \ {timers.stored}]
  /\ t' = IF timers.stored # 0 THEN [t EXCEPT !.armed = FALSE] ELSE t
  /\ Advance(u)
  /\ UNCHANGED <<certVars, certs, err, fetched, running, mu, rd, committed>>

\* c.t = time.AfterFunc(cacheTime, func() { c.update(transport) })
AfterFunc(u) ==
  /\ running /\ At(u, "after")
  /\ LET k == timers.made + 2
     IN  /\ timers' = [pending |-> timers.pending \cup {k},
                        stored  |-> k,
                        made    |-> timers.made + 1,
                        delay   |-> [j \in DOMAIN timers.delay \cup {k} |->
                                       IF j = k THEN ups[u].r.cacheTime
                                       ELSE timers.delay[j]]]
         /\ t' = [armed |-> TRUE, delay |-> ups[u].r.cacheTime]
  /\ Advance(u)
  /\ UNCHANGED <<certVars, certs, err, fetched, running, mu, rd, committed>>

\* the deferred c.mu.Unlock()
Unlock(u) ==
  /\ running /\ At(u, "unlock")
  /\ mu' = [mu EXCEPT !.writer = 0]
  /\ committed' = <<certs, err>>
  /\ Advance(u)
  /\ UNCHANGED <<certVars, certs, err, t, fetched, running, timers, rd>>

\* The timer k fires and runs c.update(transport) on its own goroutine. A
\* timer with a delay above zero does not fire while the update that made
\* it still holds the lock.
Fire(k) ==
  /\ running /\ k \in timers.pending /\ k \notin DOMAIN ups /\ k <= MaxUpdates
  /\ timers.delay[k] > 0 => mu.writer = 0
  /\ timers' = [timers EXCEPT !.pending = pendingAfterFire(@, k)]
  /\ t' = IF timers.stored = k THEN [t EXCEPT !.armed = FALSE] ELSE t
  /\ ups' = Started(k)
  /\ UNCHANGED <<certVars, certs, err, fetched, running, mu, rd, committed>>

readerVars == <<certVars, certs, err, t, fetched, running, ups, timers, committed>>

\* A goroutine calls c.Cert(keyID) on the Certificates LoadCerts returned.
BeginCert(g) ==
  /\ running /\ At(1, "done") /\ rd[g].pc \in {"idle", "returned"}
  /\ \E keyID \in {StrK, StrM} :
       rd' = [rd EXCEPT ![g] = [IdleReader EXCEPT !.pc = "rlock", !.keyID = keyID]]
  /\ UNCHANGED <<readerVars, mu>>

\* c.mu.RLock()
RLock(g) ==
  /\ running /\ rd[g].pc = "rlock" /\ canRLock(mu)
  /\ mu' = [mu EXCEPT !.readers = @ \cup {g}]
  /\ rd' = [rd EXCEPT ![g].pc = "lookup", ![g].snap = committed]
  /\ UNCHANGED readerVars

\* cert, found := c.certs[keyID]; if found { return cert, nil }
Lookup(g) ==
  /\ running /\ rd[g].pc = "lookup"
  /\ rd' = [rd EXCEPT ![g].certs = certs,
                       ![g].pc = IF rd[g].keyID \in DOMAIN certs
                                 THEN "runlock" ELSE "readErr"]
  /\ UNCHANGED <<readerVars, mu>>

\* else if c.err == nil { ... } else { ... c.err ... }
ReadErr(g) ==
  /\ running /\ rd[g].pc = "readErr"
  /\ rd' = [rd EXCEPT ![g].err = err, ![g].pc = "runlock"]
  /\ UNCHANGED <<readerVars, mu>>

\* the deferred c.mu.RUnlock(), and the return of Cert
RUnlock(g) ==
  /\ running /\ rd[g].pc = "runlock"
  /\ mu' = [mu EXCEPT !.readers = @ \ {g}]
  /\ rd' = [rd EXCEPT ![g].pc = "returned"]
  /\ UNCHANGED readerVars

NextLocks ==
  \/ StartLoadCerts
  \/ \E u \in 1..MaxUpdates :
       \/ Download(u) \/ Lock(u) \/ SetErr(u) \/ SetCerts(u)
       \/ Stop(u) \/ AfterFunc(u) \/ Unlock(u)
  \/ \E k \in 2..MaxUpdates : Fire(k)
  \/ \E g \in Readers :
       \/ BeginCert(g) \/ RLock(g) \/ Lookup(g) \/ ReadErr(g) \/ RUnlock(g)

SpecLocks == Init /\ [][NextLocks]_vars

\* ------------------------------------------------------------------------
\* UserList: the goroutine of start, the channel C, and the one who reads C
\* ------------------------------------------------------------------------
\* The service holds up to MaxPages pages of users.
MaxPages == 3
\* A page of the service has up to MaxPageSize users.
MaxPageSize == 2
\* The users asked for in one request, and the size of the buffer of C.
maxResultsPerPage == 50
\* At most MaxFailures requests of a listing fail.
MaxFailures == 1

\* The pages of the service, each given by the number of its users.
PageLists == UNION {[1..n -> 0..MaxPageSize] : n \in 1..MaxPages}

\* The users of the page p: the user i of the page p is <<p, i>>.
UsersOfPage(pages, p) == [i \in 1..pages[p] |-> <<p, i>>]

\* DownloadAccount: the page token 0 is "" and asks for the first page, the
\* token p asks for the page after the page p; the last page comes with
\* the nextPageToken "".
DownloadAccount(pages, pageToken) ==
  [Users |-> UsersOfPage(pages, pageToken + 1),
   NextPageToken |-> IF pageToken + 1 < Len(pages) THEN pageToken + 1 ELSE 0]

\* ListUsersN when the request does not fail: users, pageToken.
ListUsersN(pages, pageToken) ==
  LET resp == DownloadAccount(pages, pageToken)
  IN  [users |-> resp.Users, pageToken |-> resp.NextPageToken]

\* start: a new channel, and a goroutine at the head of its loop.
start(l) ==
  [l EXCEPT !.ch = <<>>, !.closed = FALSE, !.closes = 0, !.afterClose = 0,
            !.pc = "request"]

\* close(ch): closing a closed channel panics.
close(l) ==
  IF l.closed THEN [l EXCEPT !.closes = @ + 1, !.pc = "panic"]
  ELSE [l EXCEPT !.closes = @ + 1, !.closed = TRUE]

\* The goroutine calls ListUsersN; the call is counted when the channel is
\* closed already.
requested(l) == [l EXCEPT !.afterClose = IF l.closed THEN @ + 1 ELSE @]

InitUsers ==
  /\ now = 0 /\ certs = EmptyCerts /\ err = NilError /\ t = NoTimer
  /\ last = NoCall /\ codec = NoCodec /\ cc = NoHeader /\ fetched = EmptyCerts
  /\ refresh = NoRefresh /\ looked = NoLook /\ running = TRUE
  /\ mu = [writer |-> 0, readers |-> {}] /\ ups = <<>> /\ timers = NoTimers
  /\ rd = [r \in Readers |-> IdleReader]
  /\ committed = <<EmptyCerts, NilError>>
  /\ oob = NoCode
  /\ \E pages \in PageLists : ul = [NoList EXCEPT !.pc = "new", !.pages = pages]

userVars ==
  <<now, certs, err, t, last, codec, cc, fetched, refresh, looked, running,
    lockVars, oob>>

\* ListUsers: l := &UserList{client: c}; l.start(ctx)
ListUsers ==
  /\ ul.pc = "new"
  /\ ul' = start(ul)
  /\ UNCHANGED userVars

\* The request of ListUsersN fails: l.Error = err; close(ch); return
RequestFails ==
  /\ ul.pc = "request" /\ ul.failures < MaxFailures
  /\ LET l == close([requested(ul) EXCEPT !.Error = TRUE, !.failures = @ + 1])
     IN  ul' = IF l.pc = "panic" THEN l ELSE [l EXCEPT !.pc = "returned"]
  /\ UNCHANGED userVars

\* The request of ListUsersN succeeds: close(ch) when the page is empty or
\* its pageToken is "", and the loop goes on; otherwise l.pageToken is set
\* and the users of the page are sent.
RequestSucceeds ==
  /\ ul.pc = "request"
  /\ LET r == ListUsersN(ul.pages, ul.pageToken)
         l == requested(ul)
     IN  ul' = IF Len(r.users) = 0 \/ r.pageToken = 0
               THEN close(l)
               ELSE [l EXCEPT !.pageToken = r.pageToken, !.pc = "send",
                              !.page = ul.pageToken + 1, !.i = 1]
  /\ UNCHANGED userVars

\* ch <- u, which waits while the buffer is full.
Send ==
  /\ ul.pc = "send"
  /\ Len(ul.ch) < maxResultsPerPage
  /\ ul' = [ul EXCEPT !.ch = Append(@, <<ul.page, ul.i>>),
                       !.i = @ + 1,
                       !.pc = IF ul.i = ul.pages[ul.page]
                              THEN "request" ELSE "send"]
  /\ UNCHANGED userVars

\* The one who holds the UserList receives a user from l.C.
Receive ==
  /\ ul.pc # "panic" /\ ul.ch # <<>>
  /\ ul' = [ul EXCEPT !.received = Append(@, Head(ul.ch)), !.ch = Tail(@)]
  /\ UNCHANGED userVars

\* Retry, called when the range over l.C has ended with l.Error set.
Retry ==
  /\ ul.pc = "returned" /\ ul.ch = <<>>
  /\ ul.Error
  /\ ul' = start([ul EXCEPT !.Error = FALSE])
  /\ UNCHANGED userVars

NextUsers ==
  ListUsers \/ RequestFails \/ RequestSucceeds \/ Send \/ Receive \/ Retry

SpecUsers == InitUsers /\ [][NextUsers]_vars

\* ------------------------------------------------------------------------
\* GetOOBCode
\* ------------------------------------------------------------------------
ResetPasswordRequestType == "PASSWORD_RESET"
ChangeEmailRequestType == "NEW_EMAIL_ACCEPT"
VerifyEmailRequestType == "VERIFY_EMAIL"

\* The requests: the three request types, an unknown one and none, and each
\* field empty or not.
Requests ==
  [RequestType : {ResetPasswordRequestType, ChangeEmailRequestType,
                  VerifyEmailRequestType, "UNKNOWN", ""},
   Email : {"", "user@example.com"},
   CAPTCHAChallenge : {"", "123"},
   CAPTCHAResponse : {"", "abc"},
   NewEmail : {"", "newuser@example.com"},
   Token : {"", "token"}]

\* What the service answers to a request that is sent: {"oobCode":
\* "123abc"}, or an error.
APIError == "api error"
Answers == {"123abc", APIError}

\* The switch of GetOOBCode on req.RequestType: the error it returns
\* before any request is made, "nil" when it returns none.
requestError(req) ==
  CASE req.RequestType = ResetPasswordRequestType ->
         IF req.Email = "" THEN "GetOOBCode: must provide an email"
         ELSE IF req.CAPTCHAResponse = ""
           THEN "GetOOBCode: must provide CAPTCHA response"
         ELSE "nil"
    [] req.RequestType = ChangeEmailRequestType ->
         IF req.Email = "" THEN "GetOOBCode: must provide the old email"
         ELSE IF req.NewEmail = "" THEN "GetOOBCode: must provide the new email"
         ELSE IF req.Token = "" THEN "GetOOBCode: must provide the Gitkit token"
         ELSE "nil"
    [] req.RequestType = VerifyEmailRequestType ->
         IF req.Email = "" THEN "GetOOBCode: must provide an email"
         ELSE "nil"
    [] OTHER -> "GetOOBCode: unrecognized request type [%s]"

InitOOB ==
  /\ now = 0 /\ certs = EmptyCerts /\ err = NilError /\ t = NoTimer
  /\ last = NoCall /\ codec = NoCodec /\ cc = NoHeader /\ fetched = EmptyCerts
  /\ refresh = NoRefresh /\ looked = NoLook /\ running = TRUE
  /\ mu = [writer |-> 0, readers |-> {}] /\ ups = <<>> /\ timers = NoTimers
  /\ rd = [r \in Readers |-> IdleReader]
  /\ committed = <<EmptyCerts, NilError>>
  /\ ul = NoList
  /\ \E req \in Requests : oob = [NoCode EXCEPT !.step = "made", !.req = req]

\* GetOOBCode(req): the error of the switch, or the request to the service
\* and what it answers.
GetOOBCode ==
  /\ oob.step = "made"
  /\ LET e == requestError(oob.req)
     IN  IF e # "nil"
         THEN oob' = [oob EXCEPT !.step = "returned", !.ret = Returned("", e)]
         ELSE \E a \in Answers :
                oob' = [oob EXCEPT !.step = "returned", !.sent = TRUE,
                                   !.answer = a,
                                   !.ret = IF a = APIError THEN Returned("", a)
                                           ELSE Returned(a, "nil")]
  /\ UNCHANGED <<now, certs, err, t, last, codec, cc, fetched, refresh, looked,
                 running, lockVars, ul>>

NextOOB == GetOOBCode

SpecOOB == InitOOB /\ [][NextOOB]_vars

\* ------------------------------------------------------------------------
\* What a call was given, read off the token string and the certificates
\* ------------------------------------------------------------------------
\* The number of '.' characters of a string.
DotCount(str) == Cardinality({n \in 1..Len(str) : str[n] = Dot})

\* The n-th of the three segments of a token string with two dots.
Segment(token, n) == Split(token, Dot)[n]

\* The unpadded base64url texts of the JSON objects, computed once.
SegmentTable == [d \in JSONDocs |-> RawURLEncodeToString(JSONTable[d])]

\* A segment is valid when it is the unpadded base64url text of a JSON object.
ValidSegment(seg) == \E d \in JSONDocs : seg = SegmentTable[d]

\* The object a segment carries, the empty object when it carries none.
DocOf(seg) ==
  LET dec == decodeSegment(seg)
  IN IF dec.err = "nil" THEN Unmarshal(dec.bytes).doc ELSE ZeroDoc

\* The segment decodes and its bytes parse.
Parses(seg) ==
  /\ decodeSegment(seg).err = "nil"
  /\ Unmarshal(decodeSegment(seg).bytes).err = "nil"

\* Three segments, the header and the payload valid.
WellFormed(token) ==
  /\ DotCount(token) = 2
  /\ ValidSegment(Segment(token, 1))
  /\ ValidSegment(Segment(token, 2))

ClaimsOf(token) == DocOf(Segment(token, 2))
HeaderOf(token) == DocOf(Segment(token, 1))

Member(list, e) == e \in {list.elems[n] : n \in 1..Len(list.elems)}

\* The issuer check lets iss through: no list was supplied, or iss is in it.
IssuerAccepted(issuers, iss) == issuers.isNil \/ Member(issuers, iss)

\* The signature segment is the signature of header.payload under the
\* certificate the cache holds for the key id of the header.
SignatureVerifies(token) ==
  /\ HeaderOf(token).KeyID \in DOMAIN certs
  /\ decodeSegment(Segment(token, 3)).err = "nil"
  /\ decodeSegment(Segment(token, 3)).bytes =
       Sign(certs[HeaderOf(token).KeyID].key,
            Segment(token, 1) \o <<Dot>> \o Segment(token, 2))

\* ------------------------------------------------------------------------
\* C1
\* ------------------------------------------------------------------------
\* C1: VerifyToken returns a non-nil Token only if every validation step
\* succeeded for that call: three segments, header and payload decode and
\* parse, the issuer (when checked) and the audience are accepted, the token
\* is not expired, alg is RS256, the key id is in the certificates and the
\* signature verifies over header + "." + payload.  In every other outcome
\* the Token is nil and the error is non-nil.
C1_TokenOnlyAfterAllChecks ==
  last.called =>
    /\ last.ret.isNil <=> last.ret.err # "nil"
    /\ last.ret.isNil => last.ret.token = NilToken
    /\ ~last.ret.isNil =>
         /\ len(last.audiences) > 0
         /\ DotCount(last.token) = 2
         /\ Parses(Segment(last.token, 1))
         /\ Parses(Segment(last.token, 2))
         /\ IssuerAccepted(last.issuers, ClaimsOf(last.token).Iss)
         /\ Member(last.audiences, ClaimsOf(last.token).Aud)
         /\ ~(now > Unix(ClaimsOf(last.token).Exp))
         /\ HeaderOf(last.token).Algorithm = RS256
         /\ SignatureVerifies(last.token)

\* A call returned a Token.
C1_Witness == last.called /\ ~last.ret.isNil

\* ------------------------------------------------------------------------
\* C2
\* ------------------------------------------------------------------------
\* The checks in the order of the claim, each with whether it fails on the
\* call and the error it gives.  A check that cannot be made because an
\* earlier one failed does not fail.
ChecksOf(token, audiences, issuers) ==
  LET three == DotCount(token) = 2
      pOK == three /\ Parses(Segment(token, 2))
      hOK == three /\ Parses(Segment(token, 1))
      claims == IF pOK THEN ClaimsOf(token) ELSE ZeroDoc
      header == IF hOK THEN HeaderOf(token) ELSE ZeroDoc
      hDecode == IF three THEN decodeSegment(Segment(token, 1)).err ELSE "nil"
      sDecode == IF three THEN decodeSegment(Segment(token, 3)).err ELSE "nil"
  IN << [fails |-> len(audiences) = 0, err |-> ErrMissingAudience],
        [fails |-> ~three, err |-> ErrMalformed],
        [fails |-> ~pOK, err |-> ErrMalformed],
        [fails |-> ~IssuerAccepted(issuers, claims.Iss), err |-> ErrInvalidIssuer],
        [fails |-> ~Member(audiences, claims.Aud), err |-> ErrInvalidAudience],
        [fails |-> now > Unix(claims.Exp), err |-> ErrExpired],
        [fails |-> ~hOK, err |-> IF hDecode # "nil" THEN hDecode ELSE ErrMalformed],
        [fails |-> header.Algorithm # RS256, err |-> ErrInvalidAlgorithm],
        [fails |-> header.KeyID \notin DOMAIN certs, err |-> ErrKeyNotFound],
        [fails |-> sDecode # "nil", err |-> ErrMalformed],
        [fails |-> three /\ hOK /\ sDecode = "nil" /\ ~SignatureVerifies(token),
         err |-> ErrInvalidSignature] >>

\* The error of the earliest failing check, "nil" when none fails.
EarliestError(checks) ==
  LET failing == {n \in 1..Len(checks) : checks[n].fails}
  IN IF failing = {} THEN "nil"
     ELSE checks[CHOOSE n \in failing : \A m \in failing : n <= m].err

\* C2: when a token fails more than one check VerifyToken returns the error
\* of the earliest failing check in the order: missing audiences, segment
\* count, payload decode/parse, issuer, audience, expiry, header
\* decode/parse, algorithm, key lookup, signature decode, signature
\* verification.
C2_EarliestFailingCheckDecides ==
  last.called =>
    last.ret.err = EarliestError(ChecksOf(last.token, last.audiences, last.issuers))

\* A token of three segments with a payload that parses was verified on
\* which at least three checks fail, the expiry and the algorithm among them.
C2_Witness ==
  /\ last.called
  /\ LET checks == ChecksOf(last.token, last.audiences, last.issuers)
     IN /\ Cardinality({n \in 1..Len(checks) : checks[n].fails}) >= 3
        /\ checks[6].fails
        /\ checks[8].fails
        /\ ~checks[1].fails /\ ~checks[2].fails /\ ~checks[3].fails

\* ------------------------------------------------------------------------
\* C3
\* ------------------------------------------------------------------------
\* C3: VerifyToken called with a nil or zero-length audiences list returns
\* ErrMissingAudience and no Token, for every token string, malformed ones
\* included, and does not ask the certificates for any key.
C3_EmptyAudiencesIsMissingAudience ==
  (last.called /\ Len(last.audiences.elems) = 0) =>
    /\ last.ret.isNil
    /\ last.ret.err = ErrMissingAudience
    /\ last.ret.lookups = <<>>

\* A token string of four segments was verified against a non-nil audiences
\* list of length 0.
C3_Witness ==
  /\ last.called
  /\ ~last.audiences.isNil
  /\ Len(last.audiences.elems) = 0
  /\ DotCount(last.token) = 3

\* ------------------------------------------------------------------------
\* C4
\* ------------------------------------------------------------------------
\* C4: with non-empty audiences, every token string that does not split on
\* '.' into exactly 3 parts gives ErrMalformed.
C4_WrongSegmentCountIsMalformed ==
  (last.called /\ Len(last.audiences.elems) > 0 /\ DotCount(last.token) # 2) =>
    /\ last.ret.isNil
    /\ last.ret.err = ErrMalformed

\* A token string of four segments, whose first three make a token, was
\* verified against a non-empty audiences list.
C4_Witness ==
  /\ last.called
  /\ Len(last.audiences.elems) > 0
  /\ DotCount(last.token) = 3
  /\ ValidSegment(Segment(last.token, 1))
  /\ ValidSegment(Segment(last.token, 2))

\* ------------------------------------------------------------------------
\* C5
\* ------------------------------------------------------------------------
\* The issuer, the audience and the expiry of a claim set pass their checks.
ClaimsPass(claims, audiences, issuers) ==
  /\ IssuerAccepted(issuers, claims.Iss)
  /\ Member(audiences, claims.Aud)
  /\ ~(now > Unix(claims.Exp))

\* C5: for every token of 3 segments whose header or payload segment is not
\* valid unpadded-base64url JSON, VerifyToken returns exactly ErrMalformed
\* (read with the order of the checks: an invalid header is reached when the
\* payload is valid and its issuer, audience and expiry pass).
C5_InvalidHeaderOrPayloadIsMalformed ==
  (/\ last.called
   /\ Len(last.audiences.elems) > 0
   /\ DotCount(last.token) = 2
   /\ \/ ~ValidSegment(Segment(last.token, 2))
      \/ /\ ~ValidSegment(Segment(last.token, 1))
         /\ ClaimsPass(ClaimsOf(last.token), last.audiences, last.issuers))
  => last.ret.err = ErrMalformed

\* ------------------------------------------------------------------------
\* C6
\* ------------------------------------------------------------------------
\* C6: for every well-formed token whose issuer is accepted and whose aud
\* claim is not in the supplied (non-empty) audiences list VerifyToken
\* returns ErrInvalidAudience, whether or not the signature is valid and
\* whether or not the token is expired.
C6_WrongAudienceIsInvalidAudience ==
  (/\ last.called
   /\ Len(last.audiences.elems) > 0
   /\ WellFormed(last.token)
   /\ IssuerAccepted(last.issuers, ClaimsOf(last.token).Iss)
   /\ ~Member(last.audiences, ClaimsOf(last.token).Aud))
  => /\ last.ret.isNil
     /\ last.ret.err = ErrInvalidAudience

\* An expired token with a verifying signature and an audience that is not
\* in the list was verified against a list of issuers that has its issuer.
C6_Witness ==
  /\ last.called
  /\ Len(last.audiences.elems) > 0
  /\ WellFormed(last.token)
  /\ Member(last.issuers, ClaimsOf(last.token).Iss)
  /\ ClaimsOf(last.token).Aud # EmptyStr
  /\ ~Member(last.audiences, ClaimsOf(last.token).Aud)
  /\ now > Unix(ClaimsOf(last.token).Exp)
  /\ HeaderOf(last.token).Algorithm = RS256
  /\ SignatureVerifies(last.token)

\* ------------------------------------------------------------------------
\* C7
\* ------------------------------------------------------------------------
\* C7: for every well-formed token whose iss claim is not in a non-empty
\* issuers list VerifyToken (given audiences) returns ErrInvalidIssuer,
\* whatever the audience, the expiry and the signature of the token.
C7_WrongIssuerIsInvalidIssuer ==
  (/\ last.called
   /\ Len(last.audiences.elems) > 0
   /\ WellFormed(last.token)
   /\ Len(last.issuers.elems) > 0
   /\ ~Member(last.issuers, ClaimsOf(last.token).Iss))
  => /\ last.ret.isNil
     /\ last.ret.err = ErrInvalidIssuer

\* A token with an issuer and an audience that are not in the lists, expired
\* and signed with another key than the one of its key id, was verified.
C7_Witness ==
  /\ last.called
  /\ Len(last.audiences.elems) > 0
  /\ WellFormed(last.token)
  /\ Len(last.issuers.elems) > 0
  /\ ClaimsOf(last.token).Iss = StrJ
  /\ ~Member(last.issuers, ClaimsOf(last.token).Iss)
  /\ ~Member(last.audiences, ClaimsOf(last.token).Aud)
  /\ now > Unix(ClaimsOf(last.token).Exp)
  /\ HeaderOf(last.token).KeyID \in DOMAIN certs
  /\ ~SignatureVerifies(last.token)

\* ------------------------------------------------------------------------
\* C8
\* ------------------------------------------------------------------------
\* The result of the call had it been given the list of the one issuer the
\* token claims.
WithOwnIssuer ==
  VerifyToken(last.token, last.audiences,
              Slice(<<IF DotCount(last.token) = 2 THEN ClaimsOf(last.token).Iss
                      ELSE EmptyStr>>),
              [certs |-> certs, err |-> err], now)

\* C8 as stated: when the issuers argument is nil or a non-nil slice of
\* length 0 the issuer is not checked: the result is the one for the list
\* of the token's own iss, and ErrInvalidIssuer is never returned.
C8_EmptyOrNilIssuersUnchecked ==
  (last.called /\ Len(last.issuers.elems) = 0) =>
    /\ last.ret.err # ErrInvalidIssuer
    /\ last.ret = WithOwnIssuer

\* C8 amended: when the issuers argument is nil the issuer is not checked:
\* the result is the one for the list of the token's own iss, and
\* ErrInvalidIssuer is never returned.  A non-nil issuers slice of length 0
\* is checked, and every token that reaches the issuer check is refused with
\* ErrInvalidIssuer.
C8_NilIssuersUnchecked ==
  /\ (last.called /\ last.issuers.isNil) =>
       /\ last.ret.err # ErrInvalidIssuer
       /\ last.ret = WithOwnIssuer
  /\ (/\ last.called
      /\ ~last.issuers.isNil
      /\ Len(last.issuers.elems) = 0
      /\ Len(last.audiences.elems) > 0
      /\ DotCount(last.token) = 2
      /\ Parses(Segment(last.token, 2)))
     => last.ret.err = ErrInvalidIssuer

\* A token was verified with nil issuers and a Token returned.
C8_Witness ==
  /\ last.called
  /\ last.issuers.isNil
  /\ ~last.ret.isNil
  /\ last.ret.token.Issuer = StrJ

\* ------------------------------------------------------------------------
\* C9
\* ------------------------------------------------------------------------
\* C9: for every well-formed token with accepted issuer and audience whose
\* exp claim is in the past VerifyToken returns ErrExpired, whatever the
\* signature, the algorithm and the key id, and does not ask the
\* certificates for any key.
C9_PastExpiryIsExpired ==
  (/\ last.called
   /\ WellFormed(last.token)
   /\ IssuerAccepted(last.issuers, ClaimsOf(last.token).Iss)
   /\ Member(last.audiences, ClaimsOf(last.token).Aud)
   /\ Unix(ClaimsOf(last.token).Exp) < now)
  => /\ last.ret.isNil
     /\ last.ret.err = ErrExpired
     /\ last.ret.lookups = <<>>

\* An expired token with accepted issuer and audience was verified whose alg
\* is not RS256, and whose signature does not verify.
C9_Witness ==
  /\ last.called
  /\ WellFormed(last.token)
  /\ Member(last.issuers, ClaimsOf(last.token).Iss)
  /\ Member(last.audiences, ClaimsOf(last.token).Aud)
  /\ Unix(ClaimsOf(last.token).Exp) < now
  /\ HeaderOf(last.token).Algorithm = HS256
  /\ ~SignatureVerifies(last.token)

\* ------------------------------------------------------------------------
\* C10
\* ------------------------------------------------------------------------
\* C10: ExpireAt is the time on or after which the token must not be
\* accepted: at every time t >= ExpireAt, t = ExpireAt included,
\* Token.Expired() is true and VerifyToken returns no Token.
C10_NotAcceptedOnOrAfterExpireAt ==
  (last.called /\ ~last.ret.isNil) =>
    /\ now < last.ret.token.ExpireAt
    /\ \A tnow \in 0..MaxNow :
         tnow >= last.ret.token.ExpireAt => Expired(last.ret.token, tnow)

\* ------------------------------------------------------------------------
\* C11
\* ------------------------------------------------------------------------
\* The call passes every check before the algorithm check: audiences given,
\* three segments, header and payload valid, issuer and audience accepted,
\* not expired.
ReachesAlgorithmCheck ==
  /\ last.called
  /\ len(last.audiences) > 0
  /\ WellFormed(last.token)
  /\ ClaimsPass(ClaimsOf(last.token), last.audiences, last.issuers)

\* C11: for every token that passes the payload, issuer, audience and expiry
\* checks and whose header parses with an alg other than exactly "RS256", a
\* missing alg included, VerifyToken returns ErrInvalidAlgorithm and asks the
\* certificates for no key.
C11_WrongAlgorithmIsInvalidAlgorithm ==
  (ReachesAlgorithmCheck /\ HeaderOf(last.token).Algorithm # RS256)
  => /\ last.ret.isNil
     /\ last.ret.err = ErrInvalidAlgorithm
     /\ last.ret.lookups = <<>>

\* A token without alg, signed under a key the cache holds, reached the
\* algorithm check.
C11_Witness ==
  /\ ReachesAlgorithmCheck
  /\ HeaderOf(last.token).Algorithm = EmptyStr
  /\ SignatureVerifies(last.token)

\* ------------------------------------------------------------------------
\* C12
\* ------------------------------------------------------------------------
\* The messages of the errors Certificates.Cert can return.
CertErrorMessages == {FetchError.msg, "certificate not found for: %s"}

\* C12: for a token that passes all earlier checks and whose kid is not in
\* the certificate cache VerifyToken returns ErrKeyNotFound, with or without
\* a recorded fetch error; no call ever returns an error of
\* Certificates.Cert itself.
C12_LookupErrorIsKeyNotFound ==
  /\ (/\ ReachesAlgorithmCheck
      /\ HeaderOf(last.token).Algorithm = RS256
      /\ HeaderOf(last.token).KeyID \notin DOMAIN certs)
     => /\ last.ret.isNil
        /\ last.ret.err = ErrKeyNotFound
        /\ last.ret.lookups = <<HeaderOf(last.token).KeyID>>
  /\ last.called => last.ret.err \notin CertErrorMessages

\* A key the cache does not hold was looked up while the cache held another
\* key and the error of a failed refresh.
C12_Witness ==
  /\ ReachesAlgorithmCheck
  /\ HeaderOf(last.token).Algorithm = RS256
  /\ HeaderOf(last.token).KeyID \notin DOMAIN certs
  /\ certs # EmptyCerts
  /\ err = FetchError

\* ------------------------------------------------------------------------
\* C13
\* ------------------------------------------------------------------------
\* C13: for a token that differs from a valid one only in its signature
\* segment, which decodes to bytes that are not the signature of
\* header + "." + payload under the certificate of the kid, VerifyToken
\* returns ErrInvalidSignature and no Token.
C13_BadSignatureIsInvalidSignature ==
  (/\ ReachesAlgorithmCheck
   /\ HeaderOf(last.token).Algorithm = RS256
   /\ HeaderOf(last.token).KeyID \in DOMAIN certs
   /\ decodeSegment(Segment(last.token, 3)).err = "nil"
   /\ ~SignatureVerifies(last.token))
  => /\ last.ret.isNil
     /\ last.ret.token = NilToken
     /\ last.ret.err = ErrInvalidSignature

\* The signature of the token is the valid one with one bit flipped.
C13_Witness ==
  /\ ReachesAlgorithmCheck
  /\ HeaderOf(last.token).Algorithm = RS256
  /\ HeaderOf(last.token).KeyID \in DOMAIN certs
  /\ decodeSegment(Segment(last.token, 3)).err = "nil"
  /\ FlipBit(decodeSegment(Segment(last.token, 3)).bytes) =
       Sign(certs[HeaderOf(last.token).KeyID].key,
            Segment(last.token, 1) \o <<Dot>> \o Segment(last.token, 2))

\* ------------------------------------------------------------------------
\* C14
\* ------------------------------------------------------------------------
\* The claim set whose text the payload segment of the token encodes.
PayloadOf(token) == CHOOSE d \in ClaimsDocs : SegmentTable[d] = Segment(token, 2)

\* C14: on success the Token has Issuer, Audience, IssueAt, ExpireAt,
\* LocalID, Email, EmailVerified, ProviderID, DisplayName and PhotoURL equal
\* to the iss, aud, iat, exp, user_id, email, verified, provider_id,
\* display_name and photo_url claims of the payload, and TokenString equal
\* to the token string given.
C14_TokenCarriesTheClaims ==
  (last.called /\ ~last.ret.isNil) =>
    /\ \E d \in ClaimsDocs : SegmentTable[d] = Segment(last.token, 2)
    /\ LET claims == PayloadOf(last.token)
           tok == last.ret.token
       IN /\ tok.Issuer = claims.Iss
          /\ tok.Audience = claims.Aud
          /\ tok.IssueAt = claims.Iat * TicksPerSecond
          /\ tok.ExpireAt = claims.Exp * TicksPerSecond
          /\ tok.LocalID = claims.UserID
          /\ tok.Email = claims.Email
          /\ tok.EmailVerified = claims.Verified
          /\ tok.ProviderID = claims.ProviderID
          /\ tok.DisplayName = claims.DisplayName
          /\ tok.PhotoURL = claims.PhotoURL
          /\ tok.TokenString = last.token

\* A token whose payload has every claim was verified with success.
C14_Witness ==
  /\ last.called
  /\ ~last.ret.isNil
  /\ Segment(last.token, 2) = SegmentTable[FullDoc]

\* ------------------------------------------------------------------------
\* C15
\* ------------------------------------------------------------------------
\* C15: decodeSegment is a left inverse of unpadded base64url encoding: for
\* every byte sequence x, whether its encoding lacks 0, 1 or 2 padding
\* characters, decodeSegment of the unpadded encoding returns x and no error,
\* and so does decodeSegment of the padded encoding.
C15_DecodeSegmentRoundTrip ==
  codec.step = "decoded" =>
    /\ codec.out.err = "nil"
    /\ codec.out.bytes = codec.x

\* A sequence whose unpadded encoding lacks two padding characters and holds
\* a character of the URL alphabet only was decoded.
C15_Witness ==
  /\ codec.step = "decoded"
  /\ ~codec.padded
  /\ Len(codec.s) % 4 = 2
  /\ \E n \in 1..Len(codec.s) : codec.s[n] \in {45, 95}

\* ------------------------------------------------------------------------
\* C16
\* ------------------------------------------------------------------------
\* C16: Cert(keyID) returns the certificate when keyID is in the map; when
\* keyID is absent and the last refresh recorded an error it returns that
\* error; when keyID is absent and no error is recorded it returns a
\* not-found error that names the key id asked for.  A call repeated with no
\* refresh in between returns the same result.
C16_CertResult ==
  looked.called =>
    /\ looked.keyID \in DOMAIN certs =>
         looked.ret = [cert |-> certs[looked.keyID], err |-> NilError]
    /\ (looked.keyID \notin DOMAIN certs /\ err # NilError) =>
         looked.ret.err = err
    /\ (looked.keyID \notin DOMAIN certs /\ err = NilError) =>
         /\ looked.ret.err.msg = "certificate not found for: %s"
         /\ looked.ret.err.arg = looked.keyID
    /\ looked.again => looked.ret = looked.prev

\* ------------------------------------------------------------------------
\* C17
\* ------------------------------------------------------------------------
\* The response is one of a failed refresh: no response, a status other than
\* 200, a body that cannot be read, a body that is no JSON, or an entry that
\* does not parse as a certificate.
FailedResponse(resp) ==
  \/ resp.getErr
  \/ resp.status # 200
  \/ resp.readErr
  \/ resp.body.kind = "invalid"
  \/ \E k \in DOMAIN resp.body.m : ~resp.body.m[k].isCert

\* C17: a failed refresh records the error as the last error of the cache
\* and leaves the certificate map as it was; after any sequence of refreshes
\* the map is the result of the most recent successful fetch, and empty when
\* none has succeeded.
C17_FailedRefreshKeepsMap ==
  /\ (refresh.done /\ FailedResponse(refresh.resp)) =>
       /\ err # NilError
       /\ certs = refresh.before
  /\ certs = fetched

\* ------------------------------------------------------------------------
\* C18
\* ------------------------------------------------------------------------
\* C18: after a refresh that fails the next refresh is set 30 seconds later,
\* whatever max-age an earlier refresh obtained; after a refresh that
\* succeeds it is set after the cache time of that response.
C18_NextRefreshDelay ==
  refresh.done =>
    /\ t.armed
    /\ t.delay = IF FailedResponse(refresh.resp) THEN 30
                 ELSE IF refresh.resp.cacheControl = PublicMaxAge7200 THEN 7200
                 ELSE IF refresh.resp.cacheControl = MaxAge0 THEN 0
                 ELSE IF refresh.resp.cacheControl = MaxAgeMinus5 THEN 0 - 5
                 ELSE 3600

\* ------------------------------------------------------------------------
\* C19
\* ------------------------------------------------------------------------
\* The positions of the directives max-age=N with an integer N.
MaxAgePositions(ds) == {n \in 1..Len(ds) : ds[n].isMaxAge}

\* C19: cacheTime returns N seconds when the Cache-Control header has a
\* directive max-age=N with an integer N (the first one when there are
\* several), and the default of one hour when the header is absent, has no
\* max-age directive, or has max-age with a value that is not an integer.
C19_CacheTimeIsMaxAgeOrDefault ==
  cc.step = "done" =>
    LET hits == MaxAgePositions(cc.directives)
    IN IF hits = {} THEN cc.d = 3600
       ELSE cc.d = cc.directives[CHOOSE n \in hits : \A m \in hits : n <= m].n

\* The header "public, max-age=7200" was read.
C19_Witness ==
  /\ cc.step = "done"
  /\ cc.header = <<112, 117, 98, 108, 105, 99, 44, 32>> \o MaxAgePrefix
                   \o <<55, 50, 48, 48>>
  /\ cc.d = 7200

\* ------------------------------------------------------------------------
\* C20
\* ------------------------------------------------------------------------
\* The body reached parseCerts: the response came, with status 200 and a
\* body that could be read.
BodyParsed(resp) == ~resp.getErr /\ resp.status = 200 /\ ~resp.readErr

\* The body is a JSON object of strings, each the PEM text of a certificate.
AllCertificates(body) ==
  /\ body.kind = "object"
  /\ \A k \in DOMAIN body.m : body.m[k].isPEM /\ body.m[k].isCert

\* C20: when the body is not a JSON object of strings, or any one entry is
\* not the PEM text of a certificate, parseCerts returns an error and no map
\* and the refresh installs nothing; the cache never holds a map with only
\* some of the entries of a response.
C20_ParseAllOrNothing ==
  refresh.done =>
    /\ (BodyParsed(refresh.resp) /\ ~AllCertificates(refresh.resp.body)) =>
         /\ ~refresh.result.panic
         /\ refresh.result.err # NilError
         /\ certs = refresh.before
         /\ err = refresh.result.err
    /\ \/ certs = refresh.before
       \/ DOMAIN certs = DOMAIN refresh.resp.body.m

\* ------------------------------------------------------------------------
\* C21
\* ------------------------------------------------------------------------
\* The goroutine g has read all that its call of Cert reads.
HasRead(g) == rd[g].pc = "runlock"

\* What the call of g saw: the map, and the error too when it read it (a
\* call that finds its key returns without reading c.err).
Observed(g) ==
  <<rd[g].certs, IF rd[g].keyID \in DOMAIN rd[g].certs THEN rd[g].snap[2] ELSE rd[g].err>>

\* C21: with any number of goroutines in Cert while update runs in the
\* background, every call of Cert sees the map and the last error as one
\* completed update left them together (those from before the update or
\* those it installed), never a map of one update with the error of another.
C21_CertSeesOneUpdate ==
  \A g \in Readers : HasRead(g) => Observed(g) = rd[g].snap

\* Every goroutine is inside Cert holding the read lock, one of them has
\* read a map with certificates, and an update started by a timer waits for
\* the lock.
C21_Witness ==
  /\ mu.readers = Readers
  /\ \E g \in Readers : HasRead(g) /\ rd[g].certs # EmptyCerts
  /\ \E u \in 2..MaxUpdates : At(u, "lock")

\* ------------------------------------------------------------------------
\* C23
\* ------------------------------------------------------------------------
\* The statements of update between c.mu.Lock and c.mu.Unlock.
LockedSteps == {"setErr", "setCerts", "stop", "after", "unlock"}

\* C23: update holds the lock only while it sets the error, the map and the
\* timer, and never during downloadCerts (the fetch and the parsing); a call
\* of Cert that waits for the lock never waits for an update that is
\* downloading.
C23_DownloadOutsideLock ==
  /\ \A u \in DOMAIN ups :
       /\ ups[u].pc = "download" => mu.writer # u
       /\ mu.writer = u => ups[u].pc \in LockedSteps
  /\ \A g \in Readers :
       (rd[g].pc = "rlock" /\ ~canRLock(mu)) => ~At(mu.writer, "download")

\* A call of Cert holds the read lock and has read the map while an update
\* started by a timer is in downloadCerts.
C23_Witness ==
  /\ \E u \in 2..MaxUpdates : At(u, "download")
  /\ \E g \in Readers : HasRead(g) /\ g \in mu.readers

\* ------------------------------------------------------------------------
\* C26
\* ------------------------------------------------------------------------
\* The updates that have not yet made their timer.
WillSchedule ==
  {u \in DOMAIN ups : ups[u].pc \notin {"unlock", "done", "panic"}}

\* The refresh loops of the Certificates: its pending timers and the updates
\* that will make one.
Loops == Cardinality(timers.pending) + Cardinality(WillSchedule)

\* No update has ended in a panic.
NoPanic == \A u \in DOMAIN ups : ups[u].pc # "panic"

C22_FailedRefreshIsRetried ==
  (refresh.done /\ FailedResponse(refresh.resp)) =>
    /\ ~refresh.result.panic
    /\ running
    /\ err = refresh.result.err /\ err # NilError
    /\ t.armed

\* ------------------------------------------------------------------------
\* C27
\* ------------------------------------------------------------------------
\* The last refresh has returned, with this error.
Refreshed == refresh.done /\ ~refresh.result.panic

\* C27: the last error of the cache is the one of the most recent refresh:
\* a refresh that succeeds sets it to nil, so that Cert for an absent key
\* then returns the not-found error and not the error of an earlier fetch;
\* after a refresh that fails, Cert for a key in the map returns the
\* certificate and no error.
C27_LastErrorIsOfLastRefresh ==
  Refreshed =>
    /\ err = refresh.result.err
    /\ looked.called =>
         /\ (refresh.result.err = NilError /\ looked.keyID \notin DOMAIN certs) =>
              /\ looked.ret.err.msg = "certificate not found for: %s"
              /\ looked.ret.cert = NoCert
         /\ (refresh.result.err # NilError /\ looked.keyID \in DOMAIN certs) =>
              looked.ret = [cert |-> certs[looked.keyID], err |-> NilError]

\* A refresh has failed, the next one has succeeded, and Cert has been
\* called for a key that is not in the map.
C27_Witness ==
  /\ Refreshed
  /\ refresh.beforeErr # NilError /\ refresh.result.err = NilError
  /\ looked.called /\ looked.keyID \notin DOMAIN certs

\* ------------------------------------------------------------------------
\* C28
\* ------------------------------------------------------------------------
\* What LoadCerts returns for the Certificates c after c.update: the
\* Certificates is handed to the caller when c.err is nil.
LoadCertsReturnsCache(e) == e = NilError

\* C28: when the first fetch of LoadCerts fails, LoadCerts returns no cache
\* and nothing is left working for the one it made: no timer is pending for
\* it.
C28_FailedLoadLeavesNoTimer ==
  (Refreshed /\ refresh.by = "LoadCerts" /\ ~LoadCertsReturnsCache(err)) =>
    ~t.armed

\* ------------------------------------------------------------------------
\* C29
\* ------------------------------------------------------------------------
\* C29: the delay of the refresh timer is above zero whatever the
\* Cache-Control header says, max-age=0 and a negative max-age included.
C29_DelayIsPositive ==
  t.armed => t.delay > 0

\* ------------------------------------------------------------------------
\* C24
\* ------------------------------------------------------------------------
RECURSIVE UsersUpTo(_, _)
\* The users of the pages 1..n, in the order of the service.
UsersUpTo(pages, n) ==
  IF n = 0 THEN <<>> ELSE UsersUpTo(pages, n - 1) \o UsersOfPage(pages, n)

\* C24: when no request fails, all the users of all the pages of the
\* service, the last page (the one with the empty nextPageToken) included,
\* have been received from C, once each and in order, when C is closed and
\* empty, and Error is nil.
C24_ChannelDeliversAllUsers ==
  (ul.closed /\ ul.ch = <<>> /\ ul.failures = 0) =>
    /\ ul.received = UsersUpTo(ul.pages, Len(ul.pages))
    /\ ~ul.Error

\* ------------------------------------------------------------------------
\* C30
\* ------------------------------------------------------------------------
\* C30: the goroutine of start closes C once and then ends: after the
\* close, for an error or for an empty page or an empty nextPageToken, it
\* makes no request of ListUsersN, sends nothing and does not close C again.
C30_ClosesOnceThenEnds ==
  /\ ul.closes <= 1
  /\ ul.afterClose = 0
  /\ ul.closed => ul.pc = "returned"

\* ------------------------------------------------------------------------
\* C25
\* ------------------------------------------------------------------------
\* The fields that the request type of req requires.
RequiredFields(req) ==
  CASE req.RequestType = "PASSWORD_RESET" ->
         {"Email", "CAPTCHAChallenge", "CAPTCHAResponse"}
    [] req.RequestType = "NEW_EMAIL_ACCEPT" -> {"Email", "NewEmail", "Token"}
    [] req.RequestType = "VERIFY_EMAIL" -> {"Email"}
    [] OTHER -> {}

\* The request type of req is one of the three, and no field it requires
\* is empty.
Complete(req) ==
  /\ req.RequestType \in {"PASSWORD_RESET", "NEW_EMAIL_ACCEPT", "VERIFY_EMAIL"}
  /\ \A f \in RequiredFields(req) : req[f] # ""

\* C25: GetOOBCode returns an error and sends nothing when the request type
\* is not one of the three or a field required for the type is empty
\* (PASSWORD_RESET: Email, CAPTCHAChallenge, CAPTCHAResponse;
\* NEW_EMAIL_ACCEPT: Email, NewEmail, Token; VERIFY_EMAIL: Email); otherwise
\* the request is sent and the OOB code of the service is returned.
C25_RequiredFieldsChecked ==
  oob.step = "returned" =>
    IF Complete(oob.req)
    THEN /\ oob.sent
         /\ oob.answer # APIError => oob.ret = Returned(oob.answer, "nil")
    ELSE ~oob.sent /\ oob.ret.err # "nil"

====
